---- MODULE Spec2Model ----
(***************************************************************************)
(* Model of the minibadge converters: the PDF build-guide parser           *)
(* (src/pdfparse.py) and the Google-Form CSV converter (src/formparse.py). *)
(*                                                                         *)
(* Text is modelled with TLA+ strings, taken apart with Len, SubSeq and \o *)
(* character by character.  The typographic apostrophe U+2019 cannot be    *)
(* written in a module, so the tilde "~" stands for it throughout.         *)
(***************************************************************************)
EXTENDS Integers, Sequences, FiniteSets, TLC

VARIABLES
    pc,           \* control position of the run or of the function call
    arg,          \* argument of the function under call
    ret,          \* value(s) returned by the function under call
    pdf,          \* the input PDF: [exists, pages], one [text, images] per page
    page_index,   \* 0-based index of the next page of the for loop of main
    badges,       \* the run's output list
    image_files,  \* images directory: file name -> bytes written
    output_json,  \* the output JSON file: [written, badges]
    form_in,      \* formparse: the command line, the environment, the local CSV
    form_json,    \* formparse: the output JSON file [exists, valid, badges]
    csv_url,      \* formparse.main: the CSV URL in use, or None
    csv_path,     \* formparse.main: the local CSV path in use, or None
    existing_by_key, \* formparse.main: the badges of the existing JSON by key
    reader,       \* formparse.main: the CSV reader, or None
    row_count,    \* formparse.main: the rows read so far
    form_badges,  \* formparse.main: the badges built so far
    new_count,    \* formparse.main: the rows whose images were downloaded
    reused_count, \* formparse.main: the rows whose images were reused
    downloads,    \* the calls of download_image_to_repo so far
    form_images   \* formparse: images directory, file name -> bytes written

formVars ==
    <<form_in, form_json, csv_url, csv_path, existing_by_key, reader, row_count,
      form_badges, new_count, reused_count, downloads, form_images>>

vars == <<pc, arg, ret, pdf, page_index, badges, image_files, output_json, formVars>>

pdfVars == <<pdf, page_index, badges, image_files, output_json>>

(***************************************************************************)
(* Bounds                                                                  *)
(***************************************************************************)
MaxPageNum == 400
MaxTitleLen == 4
MaxRawLines == 2
MaxTextLen == 5
MaxLines == 4
MaxBlockLines == 3
MaxSpanLines == 2
MaxImages == 4
MaxPages == 2
MaxRows == 2

(***************************************************************************)
(* Python values                                                           *)
(***************************************************************************)
\* None is the empty tuple; a str that may be None instead is carried as the
\* one-element tuple Str(s), since TLC cannot compare a string with a tuple.
None == <<>>

Str(s) == <<s>>

\* (v or "")
or_empty(v) == IF v = None THEN "" ELSE v[1]

NotWritten == [written |-> FALSE, badges |-> <<>>]

Min(S) == CHOOSE m \in S : \A n \in S : m <= n

Max(S) == CHOOSE m \in S : \A n \in S : m >= n

(***************************************************************************)
(* Python str operations                                                   *)
(***************************************************************************)
UPPERCASE == "ABCDEFGHIJKLMNOPQRSTUVWXYZ"

LOWERCASE == "abcdefghijklmnopqrstuvwxyz"

DIGITS == "0123456789"

WHITESPACE == {" ", "\t", "\n"}

Char(s, i) == SubSeq(s, i, i)

CharsOf(s) == {Char(s, i) : i \in 1..Len(s)}

UPPER_CHARS == CharsOf(UPPERCASE)

LOWER_CHARS == CharsOf(LOWERCASE)

DIGIT_CHARS == CharsOf(DIGITS)

isdigit(ch) == ch \in DIGIT_CHARS

isspace(ch) == ch \in WHITESPACE

isupper(ch) == ch \in UPPER_CHARS

isalpha(ch) == ch \in UPPER_CHARS \cup LOWER_CHARS

\* "sub in s"
Contains(s, sub) ==
    \E i \in 1..(Len(s) - Len(sub) + 1) : SubSeq(s, i, i + Len(sub) - 1) = sub

\* s.startswith(prefix)
startswith(s, prefix) ==
    Len(prefix) <= Len(s) /\ SubSeq(s, 1, Len(prefix)) = prefix

\* s.strip()
strip(s) ==
    LET keep == {i \in 1..Len(s) : ~isspace(Char(s, i))}
    IN  IF keep = {} THEN "" ELSE SubSeq(s, Min(keep), Max(keep))

\* s.strip("-")
strip_dashes(s) ==
    LET keep == {i \in 1..Len(s) : Char(s, i) # "-"}
    IN  IF keep = {} THEN "" ELSE SubSeq(s, Min(keep), Max(keep))

lower_char(ch) ==
    IF isupper(ch)
    THEN Char(LOWERCASE, CHOOSE i \in 1..Len(UPPERCASE) : Char(UPPERCASE, i) = ch)
    ELSE ch

upper_char(ch) ==
    IF ch \in LOWER_CHARS
    THEN Char(UPPERCASE, CHOOSE i \in 1..Len(LOWERCASE) : Char(LOWERCASE, i) = ch)
    ELSE ch

RECURSIVE lower(_)
\* s.lower()
lower(s) == IF s = "" THEN "" ELSE lower_char(Char(s, 1)) \o lower(SubSeq(s, 2, Len(s)))

\* s.capitalize(): first character uppercased, every other one lowercased
capitalize(s) ==
    IF s = "" THEN "" ELSE upper_char(Char(s, 1)) \o lower(SubSeq(s, 2, Len(s)))

RECURSIVE splitlines(_)
\* s.splitlines()
splitlines(s) ==
    IF s = "" THEN <<>>
    ELSE LET nl == {i \in 1..Len(s) : Char(s, i) = "\n"}
         IN  IF nl = {} THEN <<s>>
             ELSE <<SubSeq(s, 1, Min(nl) - 1)>>
                      \o splitlines(SubSeq(s, Min(nl) + 1, Len(s)))

RECURSIVE split(_)
\* s.split(): the whitespace-separated tokens of s
split(s) ==
    LET t == strip(s)
        ws == {i \in 1..Len(t) : isspace(Char(t, i))}
    IN  IF t = "" THEN <<>>
        ELSE IF ws = {} THEN <<t>>
        ELSE <<SubSeq(t, 1, Min(ws) - 1)>> \o split(SubSeq(t, Min(ws) + 1, Len(t)))

RECURSIVE join(_, _)
\* sep.join(parts)
join(sep, parts) ==
    IF parts = <<>> THEN ""
    ELSE IF Len(parts) = 1 THEN parts[1]
    ELSE parts[1] \o sep \o join(sep, Tail(parts))

(***************************************************************************)
(* pdfparse.page_to_category                                               *)
(***************************************************************************)
page_to_category_widened(page_num) ==
    IF 6 <= page_num /\ page_num <= 24 THEN "Sponsor"
    ELSE IF 25 <= page_num /\ page_num <= 27 THEN "Official"
    ELSE IF 28 <= page_num /\ page_num <= 47 THEN "Community"
    ELSE IF 48 <= page_num /\ page_num <= 53 THEN "Event"
    ELSE IF 54 <= page_num /\ page_num <= 66 THEN "Contest"
    ELSE IF 67 <= page_num /\ page_num <= 70 THEN "Award"
    ELSE IF 70 <= page_num /\ page_num <= 265 THEN "Personal"
    ELSE IF 266 <= page_num /\ page_num <= 267 THEN "Accessory"
    ELSE IF 268 <= page_num /\ page_num <= 277 THEN "Other"
    ELSE ""

page_to_category(page_num) ==
    IF 6 <= page_num /\ page_num <= 24 THEN "Sponsor"
    ELSE IF 25 <= page_num /\ page_num <= 27 THEN "Official"
    ELSE IF 28 <= page_num /\ page_num <= 47 THEN "Community"
    ELSE IF 48 <= page_num /\ page_num <= 53 THEN "Event"
    ELSE IF 54 <= page_num /\ page_num <= 66 THEN "Contest"
    ELSE IF 67 <= page_num /\ page_num <= 69 THEN "Award"
    ELSE IF 70 <= page_num /\ page_num <= 265 THEN "Personal"
    ELSE IF 266 <= page_num /\ page_num <= 267 THEN "Accessory"
    ELSE IF 268 <= page_num /\ page_num <= 277 THEN "Other"
    ELSE ""

(***************************************************************************)
(* pdfparse.slugify and formparse.slugify                                  *)
(***************************************************************************)
APOSTROPHES == {"'", "~"}

SLUG_CHARS == LOWER_CHARS \cup DIGIT_CHARS

RECURSIVE remove_apostrophes(_)
\* re.sub(r"['~]", "", t), the tilde standing for U+2019
remove_apostrophes(t) ==
    IF t = "" THEN ""
    ELSE (IF Char(t, 1) \in APOSTROPHES THEN "" ELSE Char(t, 1))
             \o remove_apostrophes(SubSeq(t, 2, Len(t)))

RECURSIVE non_alnum_to_dash(_)
\* re.sub(r"[^a-z0-9]+", "-", t): each maximal run becomes one dash
non_alnum_to_dash(t) ==
    IF t = "" THEN ""
    ELSE IF Char(t, 1) \in SLUG_CHARS
         THEN Char(t, 1) \o non_alnum_to_dash(SubSeq(t, 2, Len(t)))
         ELSE LET rest == {i \in 2..Len(t) : Char(t, i) \in SLUG_CHARS}
              IN  IF rest = {} THEN "-"
                  ELSE "-" \o non_alnum_to_dash(SubSeq(t, Min(rest), Len(t)))

RECURSIVE collapse_dashes(_)
\* re.sub(r"-+", "-", t)
collapse_dashes(t) ==
    IF t = "" THEN ""
    ELSE IF Char(t, 1) # "-"
         THEN Char(t, 1) \o collapse_dashes(SubSeq(t, 2, Len(t)))
         ELSE LET rest == {i \in 2..Len(t) : Char(t, i) # "-"}
              IN  IF rest = {} THEN "-"
                  ELSE "-" \o collapse_dashes(SubSeq(t, Min(rest), Len(t)))

\* the apostrophe is not removed first, so it turns into a dash
slugify_keeps_apostrophe(title) ==
    LET t0 == lower(strip(or_empty(title)))
        t2 == non_alnum_to_dash(t0)
        t3 == strip_dashes(collapse_dashes(t2))
    IN  IF t3 = "" THEN "badge" ELSE t3

slugify(title) ==
    LET t0 == lower(strip(or_empty(title)))
        t1 == remove_apostrophes(t0)
        t2 == non_alnum_to_dash(t1)
        t3 == strip_dashes(collapse_dashes(t2))
    IN  IF t3 = "" THEN "badge" ELSE t3

formparse_slugify(title) ==
    LET t0 == lower(strip(or_empty(title)))
        t1 == remove_apostrophes(t0)
        t2 == non_alnum_to_dash(t1)
        t3 == strip_dashes(collapse_dashes(t2))
    IN  IF t3 = "" THEN "badge" ELSE t3

(***************************************************************************)
(* pdfparse.clean_lines                                                    *)
(***************************************************************************)
WATERMARKS == {"FRONT", "BACK", "TNORF", "KCAB"}

RECURSIVE remove_spaces(_)
\* ln.replace(" ", "")
remove_spaces(ln) ==
    IF ln = "" THEN ""
    ELSE (IF Char(ln, 1) = " " THEN "" ELSE Char(ln, 1))
             \o remove_spaces(SubSeq(ln, 2, Len(ln)))

is_decor(ln) ==
    \/ ln # "" /\ \A i \in 1..Len(ln) : isdigit(Char(ln, i)) \/ isspace(Char(ln, i))
    \/ Len(ln) = 1 /\ isalpha(ln) /\ isupper(ln)
    \/ remove_spaces(ln) \in WATERMARKS
    \/ ln # "" /\ (\A i \in 1..Len(ln) : isdigit(Char(ln, i))) /\ Len(ln) <= 2

\* the positions j such that ln[1] is in A-Z, ln[2..j] is whitespace and
\* ln[j+1] is the dash: where re.match(r"^([A-Z])\s+(-.*)$", ln) starts group 2
repair_points(ln) ==
    IF ln = "" \/ ~isupper(Char(ln, 1)) THEN {}
    ELSE {j \in 2..(Len(ln) - 1) :
             /\ Char(ln, j + 1) = "-"
             /\ \A k \in 2..j : isspace(Char(ln, k))}

\* the repair keeps the whitespace between the letter and the dash
repair_keeps_gap(ln) ==
    IF repair_points(ln) # {} THEN SubSeq(ln, 2, Len(ln)) ELSE ln

repair(ln) ==
    LET points == repair_points(ln)
    IN  IF points # {} THEN SubSeq(ln, Min(points) + 1, Len(ln)) ELSE ln

raw_lines(text) ==
    LET lns == splitlines(text)
        stripped == [i \in 1..Len(lns) |-> strip(lns[i])]
        nonempty(ln) == ln # ""
    IN  SelectSeq(stripped, nonempty)

\* text is page.extract_text(): a str or None
clean_lines(text) ==
    LET not_decor(ln) == ~is_decor(ln)
        filtered == SelectSeq(raw_lines(or_empty(text)), not_decor)
    IN  [i \in 1..Len(filtered) |-> repair(filtered[i])]

(***************************************************************************)
(* pdfparse.split_page_blocks                                              *)
(***************************************************************************)
MARKER == "BOARD/LED TYPE"

RECURSIVE split_keeps_tail_from(_, _, _)
\* the lines after the last marker are emitted as a last block
split_keeps_tail_from(lines, start, i) ==
    IF i > Len(lines)
    THEN (IF start <= Len(lines) THEN <<SubSeq(lines, start, Len(lines))>> ELSE <<>>)
    ELSE IF Contains(lines[i], MARKER)
         THEN <<SubSeq(lines, start, i)>> \o split_keeps_tail_from(lines, i + 1, i + 1)
         ELSE split_keeps_tail_from(lines, start, i + 1)

RECURSIVE split_from(_, _, _)
\* the for loop from index i on (1-based), the current block starting at start
split_from(lines, start, i) ==
    IF i > Len(lines) THEN <<>>
    ELSE IF Contains(lines[i], MARKER)
         THEN LET block == SubSeq(lines, start, i)
              IN  (IF block # <<>> THEN <<block>> ELSE <<>>)
                      \o split_from(lines, i + 1, i + 1)
         ELSE split_from(lines, start, i + 1)

split_page_blocks_keeps_tail(lines) == split_keeps_tail_from(lines, 1, 1)

split_page_blocks(lines) == split_from(lines, 1, 1)

(***************************************************************************)
(* pdfparse.parse_badge_core                                               *)
(*                                                                         *)
(* Indexes are 1-based here; an index that Python leaves None is 0.        *)
(***************************************************************************)
\* next((i for i, l in enumerate(lines) if test(l)), None), hits being the
\* indexes of the lines that pass the test
first_index(hits) == IF hits = {} THEN 0 ELSE Min(hits)

\* s.split(sep, 1)[1] for an s that contains sep
after_first(s, sep) ==
    LET at == Min({i \in 1..(Len(s) - Len(sep) + 1) : SubSeq(s, i, i + Len(sep) - 1) = sep})
    IN  SubSeq(s, at + Len(sep), Len(s))

\* seq[from0:to0], both 0-based as in Python, to0 exclusive
slice(seq, from0, to0) ==
    LET last == IF to0 < Len(seq) THEN to0 ELSE Len(seq)
    IN  IF from0 + 1 > last THEN <<>> ELSE SubSeq(seq, from0 + 1, last)

is_author_line(l) == Contains(l, "Designed By:")

is_diff_header(l) == Contains(l, "DIFFICULTY:") /\ Contains(l, "HOW DO I GET ONE?")

is_rarity_header(l) == startswith(strip(l), "RARITY:")

is_asm_header(l) == startswith(strip(l), "ASSEMBLY INSTRUCTIONS:")

\* the lines after the assembly header up to the first one holding the marker
asm_lines(lines, asm_header_idx) ==
    LET after == slice(lines, asm_header_idx, Len(lines))
        stop == first_index({i \in 1..Len(after) : Contains(after[i], MARKER)})
    IN  IF stop = 0 THEN after ELSE SubSeq(after, 1, stop - 1)

\* the description span starts at the author line instead of after it
extract_fields_from_author_line(lines) ==
    LET author_idx == first_index({i \in 1..Len(lines) : is_author_line(lines[i])})
        diff_header_idx == first_index({i \in 1..Len(lines) : is_diff_header(lines[i])})
        rarity_header_idx == first_index({i \in 1..Len(lines) : is_rarity_header(lines[i])})
        asm_header_idx == first_index({i \in 1..Len(lines) : is_asm_header(lines[i])})
        start_desc == IF author_idx # 0 THEN author_idx - 1 ELSE 1
        end_desc == IF diff_header_idx # 0 THEN diff_header_idx - 1 ELSE Len(lines)
        desc_lines == SelectSeq(slice(lines, start_desc, end_desc), LAMBDA l : strip(l) # "")
        tokens == IF diff_header_idx # 0 /\ diff_header_idx + 1 <= Len(lines)
                  THEN split(lines[diff_header_idx + 1]) ELSE <<>>
    IN  [ title |-> strip(lines[1]),
          author |-> IF author_idx # 0
                     THEN strip(after_first(lines[author_idx], "Designed By:")) ELSE "",
          description |-> strip(join("\n", desc_lines)),
          solderingDifficulty |-> IF tokens # <<>> THEN capitalize(tokens[1]) ELSE "",
          rarity |-> IF rarity_header_idx # 0 /\ rarity_header_idx + 1 <= Len(lines)
                     THEN capitalize(strip(lines[rarity_header_idx + 1])) ELSE "",
          howToAcquire |-> IF tokens # <<>> THEN strip(join(" ", Tail(tokens))) ELSE "",
          solderingInstructions |-> IF asm_header_idx # 0
                     THEN strip(join("\n", asm_lines(lines, asm_header_idx))) ELSE "" ]

\* the fields of a non-empty block, before the "nothing meaningful" test
extract_fields(lines) ==
    LET author_idx == first_index({i \in 1..Len(lines) : is_author_line(lines[i])})
        diff_header_idx == first_index({i \in 1..Len(lines) : is_diff_header(lines[i])})
        rarity_header_idx == first_index({i \in 1..Len(lines) : is_rarity_header(lines[i])})
        asm_header_idx == first_index({i \in 1..Len(lines) : is_asm_header(lines[i])})
        start_desc == IF author_idx # 0 THEN author_idx ELSE 1
        end_desc == IF diff_header_idx # 0 THEN diff_header_idx - 1 ELSE Len(lines)
        desc_lines == SelectSeq(slice(lines, start_desc, end_desc), LAMBDA l : strip(l) # "")
        tokens == IF diff_header_idx # 0 /\ diff_header_idx + 1 <= Len(lines)
                  THEN split(lines[diff_header_idx + 1]) ELSE <<>>
    IN  [ title |-> strip(lines[1]),
          author |-> IF author_idx # 0
                     THEN strip(after_first(lines[author_idx], "Designed By:")) ELSE "",
          description |-> strip(join("\n", desc_lines)),
          solderingDifficulty |-> IF tokens # <<>> THEN capitalize(tokens[1]) ELSE "",
          rarity |-> IF rarity_header_idx # 0 /\ rarity_header_idx + 1 <= Len(lines)
                     THEN capitalize(strip(lines[rarity_header_idx + 1])) ELSE "",
          howToAcquire |-> IF tokens # <<>> THEN strip(join(" ", Tail(tokens))) ELSE "",
          solderingInstructions |-> IF asm_header_idx # 0
                     THEN strip(join("\n", asm_lines(lines, asm_header_idx))) ELSE "" ]

\* the "nothing meaningful" test is missing
parse_badge_core_no_guard(lines) ==
    IF lines = <<>> THEN None ELSE extract_fields(lines)

parse_badge_core(lines) ==
    IF lines = <<>> THEN None
    ELSE LET core == extract_fields(lines)
         IN  IF core.solderingDifficulty = "" /\ core.description = ""
             THEN None
             ELSE core

(***************************************************************************)
(* pdfparse.get_front_back_images                                          *)
(*                                                                         *)
(* A page's images are [w, h, ext, image]; the xref of an image is its     *)
(* position in the page's list.  w / h is compared with 0.7 and 1.3 in     *)
(* tenths, which is what the float comparison gives for pixel sizes.       *)
(***************************************************************************)
MIN_SIDE == 300

infos_of(images) ==
    [i \in 1..Len(images) |->
        [ xref |-> i, w |-> images[i].w, h |-> images[i].h,
          area |-> images[i].w * images[i].h,
          ext |-> images[i].ext, image |-> images[i].image ]]

is_candidate(i) ==
    /\ (IF i.w < i.h THEN i.w ELSE i.h) > MIN_SIDE
    /\ i.h # 0
    /\ 7 * i.h < 10 * i.w
    /\ 10 * i.w < 13 * i.h

RECURSIVE insert_desc(_, _)
\* x put after the elements whose area is at least its own
insert_desc(sorted, x) ==
    IF sorted = <<>> THEN <<x>>
    ELSE IF sorted[1].area >= x.area
         THEN <<sorted[1]>> \o insert_desc(Tail(sorted), x)
         ELSE <<x>> \o sorted

RECURSIVE insert_desc_ties_reversed(_, _)
\* x put before the elements of the same area
insert_desc_ties_reversed(sorted, x) ==
    IF sorted = <<>> THEN <<x>>
    ELSE IF sorted[1].area > x.area
         THEN <<sorted[1]>> \o insert_desc_ties_reversed(Tail(sorted), x)
         ELSE <<x>> \o sorted

RECURSIVE sorted_by_area_unstable(_)
\* as sorted(candidates, key=area)[::-1] would order them
sorted_by_area_unstable(candidates) ==
    IF candidates = <<>> THEN <<>>
    ELSE insert_desc_ties_reversed(
             sorted_by_area_unstable(SubSeq(candidates, 1, Len(candidates) - 1)),
             candidates[Len(candidates)])

RECURSIVE sorted_by_area(_)
\* sorted(candidates, key=lambda x: x[4], reverse=True): stable, largest first
sorted_by_area(candidates) ==
    IF candidates = <<>> THEN <<>>
    ELSE insert_desc(sorted_by_area(SubSeq(candidates, 1, Len(candidates) - 1)),
                     candidates[Len(candidates)])

get_front_back_images(images) ==
    LET candidates == SelectSeq(infos_of(images), is_candidate)
        candidates_sorted == sorted_by_area(candidates)
    IN  slice(candidates_sorted, 0, 2)

(***************************************************************************)
(* pdfparse.main                                                           *)
(***************************************************************************)
CONFERENCE_YEAR == "2025"

IMAGES_DIR == "images"

\* the PDF path names no file
NotFound == [exists |-> FALSE, pages |-> <<>>]

\* lines 235-243 with the last block of the page taken instead of the first
page_core_last_block(text) ==
    LET blocks == split_page_blocks(clean_lines(text))
    IN  IF blocks = <<>> THEN None ELSE parse_badge_core(blocks[Len(blocks)])

\* lines 235-243: the core of the page's first block, None when the page is skipped
page_core(text) ==
    LET blocks == split_page_blocks(clean_lines(text))
    IN  IF blocks = <<>> THEN None ELSE parse_badge_core(blocks[1])

\* f"{slug}-front.{ext}" and f"{slug}-back.{ext}"
image_fn(slug, side, ext) == slug \o "-" \o side \o "." \o ext

\* f"{images_dir}/{fn}"
image_url(fn) == IMAGES_DIR \o "/" \o fn

\* a write that leaves a file that already exists as it is
write_file_keeps_existing(files, fn, bytes) ==
    [n \in DOMAIN files \cup {fn} |-> IF n \in DOMAIN files THEN files[n] ELSE bytes]

\* open(path, "wb").write(img_bytes): the file is created or replaced
write_file(files, fn, bytes) ==
    [n \in DOMAIN files \cup {fn} |-> IF n = fn THEN bytes ELSE files[n]]

\* lines 253-267: the files after the front and back images are written
write_images(files, slug, candidates) ==
    LET front == IF Len(candidates) >= 1
                 THEN write_file(files, image_fn(slug, "front", candidates[1].ext),
                                 candidates[1].image)
                 ELSE files
    IN  IF Len(candidates) >= 2
        THEN write_file(front, image_fn(slug, "back", candidates[2].ext),
                        candidates[2].image)
        ELSE front

\* lines 269-286
make_badge(core, category, candidates) ==
    LET slug == slugify(Str(core.title))
    IN  [ title |-> core.title,
          author |-> core.author,
          profilePictureUrl |-> "",
          frontImageUrl |-> IF Len(candidates) >= 1
                            THEN image_url(image_fn(slug, "front", candidates[1].ext))
                            ELSE "",
          backImageUrl |-> IF Len(candidates) >= 2
                           THEN image_url(image_fn(slug, "back", candidates[2].ext))
                           ELSE "",
          description |-> core.description,
          specialInstructions |-> "",
          solderingInstructions |-> core.solderingInstructions,
          solderingDifficulty |-> core.solderingDifficulty,
          quantityMade |-> 0,
          category |-> category,
          conferenceYear |-> CONFERENCE_YEAR,
          boardHouse |-> "",
          howToAcquire |-> core.howToAcquire,
          rarity |-> core.rarity,
          timestamp |-> "" ]

\* lines 218-224: exit when the PDF is missing, else start with no badge
OpenPdf ==
    /\ pc = "start"
    /\ pc' = IF ~pdf.exists THEN "exit" ELSE "pages"
    /\ badges' = <<>>
    /\ UNCHANGED <<arg, ret, pdf, page_index, image_files, output_json, formVars>>

\* lines 231-288: one iteration of the for loop over the pages
ProcessPage ==
    /\ pc = "pages"
    /\ page_index < Len(pdf.pages)
    /\ LET page == pdf.pages[page_index + 1]
           page_num == page_index + 1
           category == page_to_category(page_num)
           core == page_core(page.text)
           candidates == get_front_back_images(page.images)
       IN  IF core = None
           THEN UNCHANGED <<badges, image_files>>
           ELSE /\ image_files' = write_images(image_files, slugify(Str(core.title)),
                                               candidates)
                /\ badges' = Append(badges, make_badge(core, category, candidates))
    /\ page_index' = page_index + 1
    /\ UNCHANGED <<pc, arg, ret, pdf, output_json, formVars>>

\* lines 290-291: the dump of the badges once the loop is over
WriteOutput ==
    /\ pc = "pages"
    /\ page_index = Len(pdf.pages)
    /\ output_json' = [written |-> TRUE, badges |-> badges]
    /\ pc' = "done"
    /\ UNCHANGED <<arg, ret, pdf, page_index, badges, image_files, formVars>>

(***************************************************************************)
(* formparse: helpers                                                      *)
(*                                                                         *)
(* A CSV table is [fieldnames, rows]; a row is a record over the logical   *)
(* fields of CSV_MAP, the table's headers being the ones CSV_MAP names, so *)
(* that resolve_headers maps every logical field to its own column.        *)
(***************************************************************************)
\* bool(v) of a str or None
truthy(v) == v # None /\ v # Str("")

\* (a or b)
py_or(a, b) == IF truthy(a) THEN a ELSE b

\* the JSON object {}
EmptyObject == [k \in {} |-> ""]

\* d.get(key, default) of a dict d
dict_get(d, key, default) == IF key \in DOMAIN d THEN d[key] ELSE default

\* bool(d) of a dict or None: None and the empty dict are false
truthy_dict(d) == d # None /\ DOMAIN d # {}

\* _get(row, header_map[field])
get(row, field) == strip(row[field])

RECURSIVE digits_value(_, _)
\* the number written by a string of digits, acc being the value read so far
digits_value(s, acc) ==
    IF s = "" THEN acc
    ELSE digits_value(SubSeq(s, 2, Len(s)),
             10 * acc + (CHOOSE d \in 0..9 : Char(DIGITS, d + 1) = Char(s, 1)))

\* _parse_int(val, default=0)
parse_int(val) ==
    LET body == IF val # "" /\ Char(val, 1) \in {"-", "+"}
                THEN SubSeq(val, 2, Len(val)) ELSE val
    IN  IF body = "" \/ \E i \in 1..Len(body) : ~isdigit(Char(body, i)) THEN 0
        ELSE IF Char(val, 1) = "-" THEN 0 - digits_value(body, 0)
        ELSE digits_value(body, 0)

\* badge_key(title, year), title a str or None
badge_key(title, year) == <<formparse_slugify(title), strip(year)>>

RECURSIVE index_by_key_keeps_first(_)
\* the first badge of a key is kept, a later one of the same key being dropped
index_by_key_keeps_first(existing_badges) ==
    IF existing_badges = <<>> THEN <<>>
    ELSE LET before == index_by_key_keeps_first(
                           SubSeq(existing_badges, 1, Len(existing_badges) - 1))
             b == existing_badges[Len(existing_badges)]
             title == IF "title" \in DOMAIN b THEN Str(b.title) ELSE None
             k == badge_key(title, dict_get(b, "conferenceYear", ""))
         IN  [x \in DOMAIN before \cup {k} |-> IF x \in DOMAIN before THEN before[x] ELSE b]

RECURSIVE index_by_key(_)
\* lines 266-268: existing_by_key, a later badge replacing an earlier one of
\* the same key
index_by_key(existing_badges) ==
    IF existing_badges = <<>> THEN <<>>
    ELSE LET before == index_by_key(SubSeq(existing_badges, 1, Len(existing_badges) - 1))
             b == existing_badges[Len(existing_badges)]
             title == IF "title" \in DOMAIN b THEN Str(b.title) ELSE None
             k == badge_key(title, dict_get(b, "conferenceYear", ""))
         IN  [x \in DOMAIN before \cup {k} |-> IF x = k THEN b ELSE before[x]]

\* load_csv_reader(csv_url, csv_path): response is what urlopen gives for the
\* URL, local the table in the file at csv_path
load_csv_reader(url, path, response, local) ==
    IF truthy(url)
    THEN IF response.ok
         THEN [raised |-> "", value |-> <<response.table>>]
         ELSE [raised |-> "SystemExit", value |-> None]
    ELSE [raised |-> "", value |-> None]

\* infer_extension_from_content_type(content_type, default="jpg")
infer_extension_from_content_type(content_type) ==
    LET ct == lower(content_type)
    IN  IF content_type = "" THEN "jpg"
        ELSE IF Contains(ct, "jpeg") \/ Contains(ct, "jpg") THEN "jpg"
        ELSE IF Contains(ct, "png") THEN "png"
        ELSE IF Contains(ct, "gif") THEN "gif"
        ELSE IF Contains(ct, "webp") THEN "webp"
        ELSE IF Contains(ct, "bmp") THEN "bmp"
        ELSE "jpg"

is_remote(url) == startswith(url, "http://") \/ startswith(url, "https://")

\* download_image_to_repo(image_url, base_name): the path returned, outcome
\* being what urlopen gives for the URL
download_result(url, base_name, outcome) ==
    IF url = "" THEN ""
    ELSE IF ~is_remote(url) THEN url
    ELSE IF ~outcome.ok THEN url
    ELSE IMAGES_DIR \o "/" \o base_name \o "."
             \o infer_extension_from_content_type(outcome.content_type)

\* download_image_to_repo(image_url, base_name): the files afterwards
download_files(files, url, base_name, outcome) ==
    IF url # "" /\ is_remote(url) /\ outcome.ok
    THEN write_file(files,
             base_name \o "." \o infer_extension_from_content_type(outcome.content_type),
             outcome.data)
    ELSE files

\* (download_image_to_repo(raw, base) or raw)
download_or_raw(url, base_name, outcome) ==
    IF download_result(url, base_name, outcome) # ""
    THEN download_result(url, base_name, outcome)
    ELSE url

\* lines 323-340
make_form_badge(row, profile_url, front_url, back_url) ==
    [ title |-> get(row, "title"),
      author |-> get(row, "author"),
      profilePictureUrl |-> profile_url,
      frontImageUrl |-> front_url,
      backImageUrl |-> back_url,
      description |-> get(row, "description"),
      specialInstructions |-> get(row, "specialInstructions"),
      solderingInstructions |-> get(row, "solderingInstructions"),
      solderingDifficulty |-> get(row, "solderingDifficulty"),
      quantityMade |-> parse_int(get(row, "quantityMade")),
      category |-> get(row, "category"),
      conferenceYear |-> get(row, "conferenceYear"),
      boardHouse |-> get(row, "boardHouse"),
      howToAcquire |-> get(row, "howToAcquire"),
      rarity |-> get(row, "rarity"),
      timestamp |-> get(row, "timestamp") ]

(***************************************************************************)
(* Idle values of the variables a specification does not use               *)
(***************************************************************************)
PdfIdle ==
    /\ pdf = NotFound
    /\ page_index = 0
    /\ badges = <<>>
    /\ image_files = <<>>
    /\ output_json = NotWritten

FormIdle ==
    /\ form_in = None
    /\ form_json = [exists |-> FALSE, valid |-> FALSE, badges |-> <<>>]
    /\ csv_url = None
    /\ csv_path = None
    /\ existing_by_key = <<>>
    /\ reader = None
    /\ row_count = 0
    /\ form_badges = <<>>
    /\ new_count = 0
    /\ reused_count = 0
    /\ downloads = <<>>
    /\ form_images = <<>>

(***************************************************************************)
(* SpecCategory: page_to_category applied to a page number                 *)
(***************************************************************************)
InitCategory ==
    /\ pc = "call"
    /\ arg \in 1..MaxPageNum
    /\ ret = None
    /\ PdfIdle
    /\ FormIdle

CallCategory ==
    /\ pc = "call"
    /\ ret' = page_to_category(arg)
    /\ pc' = "return"
    /\ UNCHANGED <<arg, pdfVars, formVars>>

NextCategory == CallCategory

SpecCategory == InitCategory /\ [][NextCategory]_vars

(***************************************************************************)
(* SpecSlug: both slugify functions applied to a title                     *)
(***************************************************************************)
TitleAlphabet == {"A", "b", "3", " ", "'", "~", "!", "-"}

RECURSIVE StringsUpTo(_, _)
\* all strings over the alphabet of length at most n
StringsUpTo(alphabet, n) ==
    IF n = 0 THEN {""}
    ELSE LET shorter == StringsUpTo(alphabet, n - 1)
         IN  shorter \cup {s \o c : s \in shorter, c \in alphabet}

ExampleTitles == {"Scratch and Sniff!", "Pip's Badge", "Pip~s  Badge", " --My__Badge-- "}

InitSlug ==
    /\ pc = "call"
    /\ arg \in {None} \cup {Str(t) : t \in StringsUpTo(TitleAlphabet, MaxTitleLen) \cup ExampleTitles}
    /\ ret = None
    /\ PdfIdle
    /\ FormIdle

CallSlug ==
    /\ pc = "call"
    /\ ret' = [pdfparse |-> slugify(arg), formparse |-> formparse_slugify(arg)]
    /\ pc' = "return"
    /\ UNCHANGED <<arg, pdfVars, formVars>>

NextSlug == CallSlug

SpecSlug == InitSlug /\ [][NextSlug]_vars

(***************************************************************************)
(* SpecClean: clean_lines applied to a page text, then to its own output   *)
(***************************************************************************)
RawLineSet ==
    { "", "  ", "7 7 7", "12", "123", "X", "x", "FRONT", "F R O N T", "KCAB",
      "C -Magic", "C \t -x", "A B -x", " My Badge ", "-7", "C -", "BACK page" }

TextAlphabet == {"C", " ", "-", "7", "\n"}

RECURSIVE SeqsUpTo(_, _)
\* all sequences over the set of length at most n
SeqsUpTo(S, n) ==
    IF n = 0 THEN {<<>>}
    ELSE LET shorter == SeqsUpTo(S, n - 1)
         IN  shorter \cup {Append(q, x) : q \in shorter, x \in S}

PageTexts ==
    {join("\n", q) : q \in SeqsUpTo(RawLineSet, MaxRawLines)}
        \cup StringsUpTo(TextAlphabet, MaxTextLen)

InitClean ==
    /\ pc = "call"
    /\ arg \in {None} \cup {Str(t) : t \in PageTexts}
    /\ ret = <<>>
    /\ PdfIdle
    /\ FormIdle

CleanOnce ==
    /\ pc = "call"
    /\ ret' = <<clean_lines(arg)>>
    /\ pc' = "cleaned"
    /\ UNCHANGED <<arg, pdfVars, formVars>>

CleanAgain ==
    /\ pc = "cleaned"
    /\ ret' = Append(ret, clean_lines(Str(join("\n", ret[1]))))
    /\ pc' = "return"
    /\ UNCHANGED <<arg, pdfVars, formVars>>

NextClean == CleanOnce \/ CleanAgain

SpecClean == InitClean /\ [][NextClean]_vars

(***************************************************************************)
(* SpecSplit: split_page_blocks applied to a page's sanitized lines        *)
(***************************************************************************)
SplitLineSet ==
    {"My Badge", "Fun fact", "BOARD/LED", "BOARD/LED TYPE", "x BOARD/LED TYPE: y"}

InitSplit ==
    /\ pc = "call"
    /\ arg \in SeqsUpTo(SplitLineSet, MaxLines)
    /\ ret = None
    /\ PdfIdle
    /\ FormIdle

CallSplit ==
    /\ pc = "call"
    /\ ret' = split_page_blocks(arg)
    /\ pc' = "return"
    /\ UNCHANGED <<arg, pdfVars, formVars>>

NextSplit == CallSplit

SpecSplit == InitSplit /\ [][NextSplit]_vars

(***************************************************************************)
(* SpecCore: parse_badge_core applied to one block                         *)
(*                                                                         *)
(* A block is either any short sequence over CoreLineSet or a block laid   *)
(* out as title, author line, description, difficulty header, value line,  *)
(* rarity header, rarity, assembly header, instructions, marker line.      *)
(***************************************************************************)
CoreLineSet ==
    { "My Badge", "Designed By: Alice", "Fun fact", "DIFFICULTY: HOW DO I GET ONE?",
      "BEGINNER Ask Alice", "RARITY:", "ASSEMBLY INSTRUCTIONS:", "BOARD/LED TYPE",
      "DIFFICULTY: HOW DO I GET ONE? BOARD/LED TYPE" }

LayoutTitles == {"My Badge", "Designed By: Bob"}

LayoutAuthors == {"Alice", "DIFFICULTY: x HOW DO I GET ONE?"}

LayoutDescLines == {"Fun fact", "RARITY: high"}

LayoutHeaders == {"DIFFICULTY: HOW DO I GET ONE?", "SOLDERING DIFFICULTY: HOW DO I GET ONE?"}

LayoutDifficulties == {"BEGINNER", "easy", "RARITY:"}

LayoutAcquire == {"", "Ask Alice", "Ask  Alice"}

LayoutRarities == {"Rare", "VERY RARE"}

LayoutAsmLines == {"Solder it", "no BOARD/LED TYPE here"}

Layouts ==
    [ T : LayoutTitles, A : LayoutAuthors, D : SeqsUpTo(LayoutDescLines, MaxSpanLines),
      H : LayoutHeaders, W : LayoutDifficulties, rest : LayoutAcquire,
      R : LayoutRarities, S : SeqsUpTo(LayoutAsmLines, MaxSpanLines) ]

\* the lines of a laid-out block, each one trimmed as clean_lines leaves it
LayoutLines(y) ==
    <<y.T, "Designed By: " \o y.A>> \o y.D
        \o <<y.H, IF y.rest = "" THEN y.W ELSE y.W \o " " \o y.rest,
             "RARITY:", y.R, "ASSEMBLY INSTRUCTIONS:">>
        \o y.S \o <<MARKER>>

InitCore ==
    /\ pc = "call"
    /\ arg \in [lines : SeqsUpTo(CoreLineSet, MaxBlockLines), layout : {None}]
                   \cup {[lines |-> LayoutLines(y), layout |-> <<y>>] : y \in Layouts}
    /\ ret = None
    /\ PdfIdle
    /\ FormIdle

CallCore ==
    /\ pc = "call"
    /\ ret' = parse_badge_core(arg.lines)
    /\ pc' = "return"
    /\ UNCHANGED <<arg, pdfVars, formVars>>

NextCore == CallCore

SpecCore == InitCore /\ [][NextCore]_vars

(***************************************************************************)
(* SpecImages: get_front_back_images applied to a page's images            *)
(***************************************************************************)
ImageSizes ==
    { <<500, 500>>, <<800, 800>>, <<250, 100>>, <<400, 500>>, <<500, 400>>,
      <<700, 1000>>, <<1300, 1000>>, <<300, 400>> }

ImageSet == {[w |-> d[1], h |-> d[2], ext |-> "png", image |-> "bytes"] : d \in ImageSizes}

InitImages ==
    /\ pc = "call"
    /\ arg \in SeqsUpTo(ImageSet, MaxImages)
    /\ ret = None
    /\ PdfIdle
    /\ FormIdle

CallImages ==
    /\ pc = "call"
    /\ ret' = get_front_back_images(arg)
    /\ pc' = "return"
    /\ UNCHANGED <<arg, pdfVars, formVars>>

NextImages == CallImages

SpecImages == InitImages /\ [][NextImages]_vars

(***************************************************************************)
(* SpecPdf: a run of pdfparse.main over a document                         *)
(***************************************************************************)
ExamplePageText ==
    "My Badge\nDesigned By: Alice\nFun fact\nDIFFICULTY: HOW DO I GET ONE?\n"
        \o "BEGINNER Ask Alice\nRARITY:\nRare\nASSEMBLY INSTRUCTIONS:\nSolder it\n"
        \o "BOARD/LED TYPE"

PageTextSet ==
    { None,
      Str(ExamplePageText),
      Str("My Badge\nBOARD/LED TYPE"),
      Str("BOARD/LED TYPE"),
      Str("Cover page\n12"),
      Str("My Badge\nFun\nBOARD/LED TYPE\nMy Badge\nMore\nBOARD/LED TYPE: x"),
      Str("BOARD/LED TYPE\nB2\nMore\nBOARD/LED TYPE"),
      Str("F R O N T\nmy badge!\nC -Fun\nBOARD/LED TYPE: x\ntrailing") }

PageImagesSet ==
    { <<>>,
      << [w |-> 500, h |-> 500, ext |-> "png", image |-> "A"],
         [w |-> 250, h |-> 100, ext |-> "png", image |-> "B"],
         [w |-> 800, h |-> 800, ext |-> "png", image |-> "C"] >>,
      << [w |-> 400, h |-> 500, ext |-> "png", image |-> "D"] >>,
      << [w |-> 400, h |-> 500, ext |-> "jpeg", image |-> "E"],
         [w |-> 500, h |-> 400, ext |-> "png", image |-> "F"] >> }

\* the texts whose title gives the slug "my-badge"
SameSlugTexts ==
    { Str(ExamplePageText),
      Str("My Badge\nBOARD/LED TYPE"),
      Str("F R O N T\nmy badge!\nC -Fun\nBOARD/LED TYPE: x\ntrailing") }

PageSet ==
    [text : PageTextSet, images : {<<>>}]
        \cup [text : SameSlugTexts, images : PageImagesSet]

InitPdf ==
    /\ pc = "start"
    /\ arg = None
    /\ ret = None
    /\ pdf \in {NotFound} \cup [exists : {TRUE}, pages : SeqsUpTo(PageSet, MaxPages)]
    /\ page_index = 0
    /\ badges = <<>>
    /\ image_files = <<>>
    /\ output_json = NotWritten
    /\ FormIdle

NextPdf == OpenPdf \/ ProcessPage \/ WriteOutput

SpecPdf == InitPdf /\ [][NextPdf]_vars

\* a step of the run can be taken exactly while the run has not ended: OpenPdf
\* at "start", ProcessPage or WriteOutput at "pages"
PdfRunning == pc \in {"start", "pages"}

\* the run is one sequential loop with no suspension point, so a step that
\* can be taken is taken: weak fairness of NextPdf, WF_vars(NextPdf), written
\* with PdfRunning for ENABLED <<NextPdf>>_vars
PdfFairness == []<>(~PdfRunning) \/ []<><<NextPdf>>_vars

SpecPdfFair == SpecPdf /\ PdfFairness

(***************************************************************************)
(* SpecForm: a run of formparse.main                                       *)
(***************************************************************************)
HEADERS == <<"Title of your badge", "Your handle/name", "Year produced", "Timestamp">>

\* a row, the fields no case depends on being left empty
Row(title, year, timestamp, author, front, back, qty) ==
    [ title |-> title, author |-> author, category |-> "", conferenceYear |-> year,
      solderingDifficulty |-> "", rarity |-> "", quantityMade |-> qty,
      howToAcquire |-> "", boardHouse |-> "", description |-> "",
      specialInstructions |-> "", solderingInstructions |-> "",
      profilePictureUrl |-> "", frontImageUrl |-> front, backImageUrl |-> back,
      timestamp |-> timestamp ]

RowSet ==
    { Row("My Badge", "2025", "t1", "Alice", "https://x/f.png", "local/b.png", "12"),
      Row(" my badge! ", "2025 ", "t2", "Bob", "https://x/g", "", "many"),
      Row("", "", "", "", "", "", ""),
      Row("Other", "", "", "Carol", "", "", "-3"),
      Row("", "", "t3", "Eve", "https://x/h.png", "", "") }

NoTable == [fieldnames |-> <<>>, rows |-> <<>>]

CsvTables == {NoTable} \cup [fieldnames : {HEADERS}, rows : SeqsUpTo(RowSet, MaxRows)]

Responses == {[ok |-> FALSE, table |-> NoTable]} \cup [ok : {TRUE}, table : CsvTables]

Outcomes ==
    { [ok |-> FALSE, content_type |-> "", data |-> ""],
      [ok |-> TRUE, content_type |-> "image/png", data |-> "P"],
      [ok |-> TRUE, content_type |-> "", data |-> "Q"] }

\* what urlopen may give for an image URL; nothing is requested for an empty
\* or local URL
outcomes_for(url) ==
    IF url # "" /\ is_remote(url) THEN Outcomes
    ELSE {[ok |-> FALSE, content_type |-> "", data |-> ""]}

\* a badge of the existing JSON
Existing(title, year, front) ==
    [ title |-> title, author |-> "Old", profilePictureUrl |-> "images/p.jpg",
      frontImageUrl |-> front, backImageUrl |-> "", description |-> "old",
      specialInstructions |-> "", solderingInstructions |-> "",
      solderingDifficulty |-> "", quantityMade |-> 1, category |-> "",
      conferenceYear |-> year, boardHouse |-> "", howToAcquire |-> "",
      rarity |-> "", timestamp |-> "t0" ]

ExistingJsons ==
    { [exists |-> FALSE, valid |-> FALSE, badges |-> <<>>],
      [exists |-> TRUE, valid |-> FALSE, badges |-> <<>>],
      [exists |-> TRUE, valid |-> TRUE,
       badges |-> <<Existing("My Badge", "2025", "images/my-badge-front.png")>>],
      [exists |-> TRUE, valid |-> TRUE,
       badges |-> << Existing("My Badge", "2025", "images/my-badge-front.png"),
                     Existing("MY BADGE", "2025", "images/old.png") >>],
      [exists |-> TRUE, valid |-> TRUE,
       badges |-> <<Existing("My Badge", "2025", "images/my-badge-front.png"),
                    EmptyObject>>] }

FormInputs ==
    [ args_csv_url : {None, Str("https://sheet/export?format=csv")},
      MINIBADGE_CSV_URL : {None, Str(""), Str("https://env/csv")},
      GOOGLE_FORM_CSV_URL : {None, Str("https://google/csv")},
      args_csv_path : {"./form.csv"},
      csv_file : [fieldnames : {HEADERS},
                  rows : {<<>>, <<Row("Local", "2024", "t9", "Dan", "", "", "1")>>}] ]

(***************************************************************************)
(* formparse.main                                                          *)
(***************************************************************************)
\* lines 250-274: the CSV source is chosen and the existing JSON is loaded as
\* the image cache; a JSON that fails to load leaves the cache empty
FormStart ==
    /\ pc = "form_start"
    /\ LET csv_url_env == py_or(form_in.MINIBADGE_CSV_URL, form_in.GOOGLE_FORM_CSV_URL)
           url == py_or(form_in.args_csv_url, csv_url_env)
       IN  /\ csv_url' = url
           /\ csv_path' = IF truthy(url) THEN None ELSE Str(form_in.args_csv_path)
    /\ existing_by_key' = IF form_json.exists /\ form_json.valid
                          THEN index_by_key(form_json.badges)
                          ELSE <<>>
    /\ pc' = "load_csv"
    /\ UNCHANGED <<arg, ret, pdfVars, form_in, form_json, reader, row_count,
                   form_badges, new_count, reused_count, downloads, form_images>>

\* lines 276-287: the reader is loaded and its header row is looked at;
\* reader.fieldnames raises AttributeError when the reader is None
FormLoadCsv ==
    /\ pc = "load_csv"
    /\ \E response \in Responses :
           LET r == load_csv_reader(csv_url, csv_path, response, form_in.csv_file)
           IN  /\ reader' = r.value
               /\ pc' = IF r.raised # "" THEN r.raised
                        ELSE IF r.value = None THEN "AttributeError"
                        ELSE IF r.value[1].fieldnames = <<>> THEN "SystemExit"
                        ELSE "rows"
    /\ form_badges' = <<>>
    /\ row_count' = 0
    /\ new_count' = 0
    /\ reused_count' = 0
    /\ UNCHANGED <<arg, ret, pdfVars, form_in, form_json, csv_url, csv_path,
                   existing_by_key, downloads, form_images>>

\* lines 289-342: one iteration of the for loop over the rows
FormRow ==
    /\ pc = "rows"
    /\ row_count < Len(reader[1].rows)
    /\ row_count' = row_count + 1
    /\ LET row == reader[1].rows[row_count + 1]
           title == get(row, "title")
           timestamp == get(row, "timestamp")
           year == get(row, "conferenceYear")
           slug == IF title # "" THEN formparse_slugify(Str(title)) ELSE "badge"
           key == badge_key(Str(title), year)
           existing == dict_get(existing_by_key, key, None)
           raw_profile_url == get(row, "profilePictureUrl")
           raw_front_url == get(row, "frontImageUrl")
           raw_back_url == get(row, "backImageUrl")
       IN  IF title = "" /\ timestamp = "" /\ year = ""
           THEN UNCHANGED <<form_badges, new_count, reused_count, downloads, form_images>>
           ELSE IF truthy_dict(existing)
           THEN /\ form_badges' = Append(form_badges,
                       make_form_badge(row, dict_get(existing, "profilePictureUrl", ""),
                                       dict_get(existing, "frontImageUrl", ""),
                                       dict_get(existing, "backImageUrl", "")))
                /\ reused_count' = reused_count + 1
                /\ UNCHANGED <<new_count, downloads, form_images>>
           ELSE \E o1 \in outcomes_for(raw_profile_url),
                   o2 \in outcomes_for(raw_front_url),
                   o3 \in outcomes_for(raw_back_url) :
                    LET base1 == slug \o "-profile"
                        base2 == slug \o "-front"
                        base3 == slug \o "-back"
                        files1 == download_files(form_images, raw_profile_url, base1, o1)
                        files2 == download_files(files1, raw_front_url, base2, o2)
                    IN  /\ form_badges' = Append(form_badges,
                               make_form_badge(row,
                                   download_or_raw(raw_profile_url, base1, o1),
                                   download_or_raw(raw_front_url, base2, o2),
                                   download_or_raw(raw_back_url, base3, o3)))
                        /\ form_images' = download_files(files2, raw_back_url, base3, o3)
                        /\ downloads' = downloads
                               \o << [row |-> row_count + 1, url |-> raw_profile_url, base_name |-> base1],
                                     [row |-> row_count + 1, url |-> raw_front_url, base_name |-> base2],
                                     [row |-> row_count + 1, url |-> raw_back_url, base_name |-> base3] >>
                        /\ new_count' = new_count + 1
                        /\ UNCHANGED reused_count
    /\ UNCHANGED <<pc, arg, ret, pdfVars, form_in, form_json, csv_url, csv_path,
                   existing_by_key, reader>>

\* lines 344-353: the badges are written over the output JSON
FormWrite ==
    /\ pc = "rows"
    /\ row_count = Len(reader[1].rows)
    /\ form_json' = [exists |-> TRUE, valid |-> TRUE, badges |-> form_badges]
    /\ pc' = "done"
    /\ UNCHANGED <<arg, ret, pdfVars, form_in, csv_url, csv_path, existing_by_key,
                   reader, row_count, form_badges, new_count, reused_count,
                   downloads, form_images>>

InitForm ==
    /\ pc = "form_start"
    /\ arg = None
    /\ ret = None
    /\ PdfIdle
    /\ form_in \in FormInputs
    /\ form_json \in ExistingJsons
    /\ csv_url = None
    /\ csv_path = None
    /\ existing_by_key = <<>>
    /\ reader = None
    /\ row_count = 0
    /\ form_badges = <<>>
    /\ new_count = 0
    /\ reused_count = 0
    /\ downloads = <<>>
    /\ form_images = <<>>

NextForm == FormStart \/ FormLoadCsv \/ FormRow \/ FormWrite

SpecForm == InitForm /\ [][NextForm]_vars

(***************************************************************************)
(* Claims                                                                  *)
(***************************************************************************)

\* The nine ranges as the claim C7 lists them
ClaimedRanges ==
    { [lo |-> 6,   hi |-> 24,  label |-> "Sponsor"],
      [lo |-> 25,  hi |-> 27,  label |-> "Official"],
      [lo |-> 28,  hi |-> 47,  label |-> "Community"],
      [lo |-> 48,  hi |-> 53,  label |-> "Event"],
      [lo |-> 54,  hi |-> 66,  label |-> "Contest"],
      [lo |-> 67,  hi |-> 69,  label |-> "Award"],
      [lo |-> 70,  hi |-> 265, label |-> "Personal"],
      [lo |-> 266, hi |-> 267, label |-> "Accessory"],
      [lo |-> 268, hi |-> 277, label |-> "Other"] }

\* C7: for every page number of 1..MaxPageNum, page_to_category returns the
\* label of the one claimed range that contains it, and "" when none does;
\* no page number lies in two claimed ranges.
C7_CategoryOfUniqueRange ==
    pc = "return" =>
        LET hits == {r \in ClaimedRanges : r.lo <= arg /\ arg <= r.hi}
        IN  /\ Cardinality(hits) <= 1
            /\ hits = {} => ret = ""
            /\ \A r \in hits : ret = r.label

C7_Witness == pc = "return" /\ arg = 69 /\ ret = "Award"

RECURSIVE SlugWordsFrom(_, _, _)
\* The words of a title: the maximal runs of letters and digits, lowercased,
\* an apostrophe inside a run not ending it
SlugWordsFrom(s, i, cur) ==
    IF i > Len(s) THEN (IF cur = "" THEN <<>> ELSE <<cur>>)
    ELSE LET c == lower_char(Char(s, i))
         IN  IF c \in APOSTROPHES THEN SlugWordsFrom(s, i + 1, cur)
             ELSE IF c \in SLUG_CHARS THEN SlugWordsFrom(s, i + 1, cur \o c)
             ELSE (IF cur = "" THEN <<>> ELSE <<cur>>) \o SlugWordsFrom(s, i + 1, "")

ExpectedSlug(title) ==
    LET words == SlugWordsFrom(or_empty(title), 1, "")
    IN  IF words = <<>> THEN "badge" ELSE join("-", words)

WellFormedSlug(slug) ==
    /\ slug # ""
    /\ CharsOf(slug) \subseteq SLUG_CHARS \cup {"-"}
    /\ Char(slug, 1) # "-"
    /\ Char(slug, Len(slug)) # "-"
    /\ ~Contains(slug, "--")

\* C9: for every title, absent and empty included, both slugify functions
\* return a non-empty string of a-z, 0-9 and "-" with no leading, trailing or
\* doubled dash: the title's words joined by single dashes, apostrophes
\* dropped without a dash, and "badge" when the title has no word.
C9_SlugShape ==
    pc = "return" =>
        /\ WellFormedSlug(ret.pdfparse)
        /\ ret.pdfparse = ExpectedSlug(arg)
        /\ WellFormedSlug(ret.formparse)
        /\ ret.formparse = ExpectedSlug(arg)
        /\ arg = Str("Scratch and Sniff!") => ret.pdfparse = "scratch-and-sniff"
        /\ arg \in {None, Str(""), Str("!'-")} => ret.pdfparse = "badge"

C9_Witness ==
    /\ pc = "return"
    /\ arg = Str("Scratch and Sniff!")
    /\ ret.pdfparse = "scratch-and-sniff"
    /\ ret.formparse = "scratch-and-sniff"

\* C8: clean_lines is idempotent: applied to the newline-joined output of
\* clean_lines it returns the same lines, the repaired ones included.
C8_SanitizerIdempotent ==
    pc = "return" => ret[2] = ret[1]

C8_Witness ==
    /\ pc = "return"
    /\ arg = Str("C -Magic\n7 7 7")
    /\ ret[1] = <<"-Magic">>
    /\ ret[2] = <<"-Magic">>

IsMarkerLine(ln) == Contains(ln, "BOARD/LED TYPE")

MarkerIndexes(lines) == {i \in 1..Len(lines) : IsMarkerLine(lines[i])}

RECURSIVE Flatten(_)
Flatten(seqs) == IF seqs = <<>> THEN <<>> ELSE seqs[1] \o Flatten(Tail(seqs))

\* C3: split_page_blocks returns one block per marker line; each block is a
\* non-empty run of lines ending at a marker line and holding no other marker
\* line; the blocks concatenate to the input up to its last marker line, so
\* no marker gives no block and the lines after the last marker are dropped.
C3_OneBlockPerMarker ==
    pc = "return" =>
        /\ Len(ret) = Cardinality(MarkerIndexes(arg))
        /\ \A b \in 1..Len(ret) :
               /\ ret[b] # <<>>
               /\ MarkerIndexes(ret[b]) = {Len(ret[b])}
        /\ Flatten(ret) = IF MarkerIndexes(arg) = {} THEN <<>>
                          ELSE SubSeq(arg, 1, Max(MarkerIndexes(arg)))

C3_Witness ==
    /\ pc = "return"
    /\ arg = <<"My Badge", "BOARD/LED TYPE", "x BOARD/LED TYPE: y", "Fun fact">>
    /\ ret = << <<"My Badge", "BOARD/LED TYPE">>, <<"x BOARD/LED TYPE: y">> >>

LabelTokens ==
    { "Designed By:", "DIFFICULTY:", "HOW DO I GET ONE?", "RARITY:",
      "ASSEMBLY INSTRUCTIONS:", "BOARD/LED TYPE" }

HasLabel(s) == \E t \in LabelTokens : Contains(s, t)

\* C2 (as claimed): parse_badge_core returns "no record" for every block made
\* of a title line followed by a marker line, with no author, difficulty,
\* rarity or assembly anchor.
C2_TitleAndMarkerRejected ==
    (/\ pc = "return"
     /\ Len(arg.lines) = 2
     /\ ~IsMarkerLine(arg.lines[1])
     /\ IsMarkerLine(arg.lines[2])
     /\ \A i \in 1..2 :
            \A t \in LabelTokens \ {"BOARD/LED TYPE"} : ~Contains(arg.lines[i], t))
        => ret = None

RECURSIVE WordsSingleSpaced(_)
\* the whitespace-separated words of s, one space between two of them
WordsSingleSpaced(s) ==
    LET letters == {i \in 1..Len(s) : Char(s, i) \notin WHITESPACE}
    IN  IF letters = {} THEN ""
        ELSE LET from == Min(letters)
                 gaps == {i \in from..Len(s) : Char(s, i) \in WHITESPACE}
             IN  IF gaps = {} THEN SubSeq(s, from, Len(s))
                 ELSE LET more == WordsSingleSpaced(SubSeq(s, Min(gaps), Len(s)))
                      IN  SubSeq(s, from, Min(gaps) - 1)
                              \o (IF more = "" THEN "" ELSE " " \o more)

\* the claim's precondition: no label token inside T, D, R or S
LabelFreeTDRS(y) ==
    /\ ~HasLabel(y.T)
    /\ ~HasLabel(y.R)
    /\ \A i \in 1..Len(y.D) : ~HasLabel(y.D[i])
    /\ \A i \in 1..Len(y.S) : ~HasLabel(y.S[i])

\* the header line holds its two tokens and starts with no other header's
LabelFreeAWH(y) ==
    /\ ~HasLabel(y.A)
    /\ ~HasLabel(y.W)
    /\ ~HasLabel(y.rest)
    /\ ~Contains(y.H, "Designed By:")
    /\ ~Contains(y.H, "RARITY:")
    /\ ~Contains(y.H, "ASSEMBLY INSTRUCTIONS:")
    /\ ~Contains(y.H, "BOARD/LED TYPE")

LayoutFields(y, acquire) ==
    [ title |-> y.T,
      author |-> y.A,
      description |-> join("\n", y.D),
      solderingDifficulty |-> capitalize(y.W),
      rarity |-> capitalize(y.R),
      howToAcquire |-> acquire,
      solderingInstructions |-> join("\n", y.S) ]

ClaimedCandidate(w, h) ==
    /\ w > 300
    /\ h > 300
    /\ 7 * h < 10 * w
    /\ 10 * w < 13 * h

\* image number i of the list ranks before image number j
RanksBefore(images, i, j) ==
    \/ images[i].w * images[i].h > images[j].w * images[j].h
    \/ images[i].w * images[i].h = images[j].w * images[j].h /\ i < j

\* C6: the selector returns at most two images, candidates all, the
\* largest-area ones in descending-area order, the earlier extracted of two
\* candidates of equal area ranking first; the spec's example gives the
\* 800x800 as front and the 500x500 as back.
C6_TwoLargestCandidates ==
    pc = "return" =>
        LET cands == {i \in 1..Len(arg) : ClaimedCandidate(arg[i].w, arg[i].h)}
            picked == {ret[k].xref : k \in 1..Len(ret)}
        IN  /\ Len(ret) = (IF Cardinality(cands) < 2 THEN Cardinality(cands) ELSE 2)
            /\ picked \subseteq cands
            /\ \A k \in 1..Len(ret) :
                   /\ ret[k].w = arg[ret[k].xref].w
                   /\ ret[k].h = arg[ret[k].xref].h
            /\ Len(ret) = 2 => RanksBefore(arg, ret[1].xref, ret[2].xref)
            /\ \A k \in 1..Len(ret) :
                   \A c \in cands \ picked : RanksBefore(arg, ret[k].xref, c)
            /\ (/\ Len(arg) = 4
                /\ <<arg[1].w, arg[1].h>> = <<500, 500>>
                /\ <<arg[2].w, arg[2].h>> = <<800, 800>>
                /\ <<arg[3].w, arg[3].h>> = <<250, 100>>
                /\ <<arg[4].w, arg[4].h>> = <<400, 500>>)
                   => (/\ Len(ret) = 2
                       /\ <<ret[1].w, ret[1].h>> = <<800, 800>>
                       /\ <<ret[2].w, ret[2].h>> = <<500, 500>>)

\* two candidates of equal area behind a larger one: the earlier is the back
C6_Witness ==
    /\ pc = "return"
    /\ Len(arg) = 4
    /\ <<arg[1].w, arg[1].h>> = <<400, 500>>
    /\ <<arg[2].w, arg[2].h>> = <<500, 400>>
    /\ <<arg[3].w, arg[3].h>> = <<250, 100>>
    /\ <<arg[4].w, arg[4].h>> = <<500, 500>>
    /\ Len(ret) = 2
    /\ ret[1].xref = 4
    /\ ret[2].xref = 1

\* the seven extracted fields of an output record
CoreOf(badge) ==
    [ title |-> badge.title,
      author |-> badge.author,
      description |-> badge.description,
      solderingDifficulty |-> badge.solderingDifficulty,
      rarity |-> badge.rarity,
      howToAcquire |-> badge.howToAcquire,
      solderingInstructions |-> badge.solderingInstructions ]

BlocksOfPage(page) == split_page_blocks(clean_lines(page.text))

RECURSIVE AcceptedCores(_)
\* the cores of the accepted blocks of a sequence of blocks, in block order
AcceptedCores(blocks) ==
    IF blocks = <<>> THEN <<>>
    ELSE (IF parse_badge_core(blocks[1]) = None THEN <<>>
          ELSE <<parse_badge_core(blocks[1])>>) \o AcceptedCores(Tail(blocks))

RECURSIVE AllBlockCores(_, _)
\* the cores of the accepted blocks of the first n pages, in page then block order
AllBlockCores(pages, n) ==
    IF n = 0 THEN <<>>
    ELSE AllBlockCores(pages, n - 1) \o AcceptedCores(BlocksOfPage(pages[n]))

RECURSIVE FirstBlockCores(_, _)
\* the cores of the accepted first blocks of the first n pages, in page order
FirstBlockCores(pages, n) ==
    IF n = 0 THEN <<>>
    ELSE FirstBlockCores(pages, n - 1)
             \o (IF BlocksOfPage(pages[n]) = <<>> THEN <<>>
                 ELSE AcceptedCores(<<BlocksOfPage(pages[n])[1]>>))

PagesWithContent(pages, n) ==
    {p \in 1..n :
        /\ BlocksOfPage(pages[p]) # <<>>
        /\ LET fields == extract_fields(BlocksOfPage(pages[p])[1])
           IN  fields.solderingDifficulty # "" \/ fields.description # ""}

\* C4: in every state of a PDF run every record of the output list has a
\* non-empty solderingDifficulty or a non-empty description, and the pages
\* whose block is extracted with both fields empty contribute no record.
C4_NoEmptyRecord ==
    pc \in {"pages", "done"} =>
        /\ \A k \in 1..Len(badges) :
               badges[k].solderingDifficulty # "" \/ badges[k].description # ""
        /\ Len(badges) = Cardinality(PagesWithContent(pdf.pages, page_index))

\* a page whose block has both fields empty was passed over, and the next
\* page's record has a description only
C4_Witness ==
    /\ pc = "pages"
    /\ page_index = 2
    /\ pdf.pages[1].text = Str("BOARD/LED TYPE")
    /\ pdf.pages[2].text = Str("My Badge\nBOARD/LED TYPE")
    /\ Len(badges) = 1
    /\ badges[1].solderingDifficulty = ""
    /\ badges[1].description = "BOARD/LED TYPE"

\* C10 (as claimed): when no CSV URL is supplied, by --csv-url or by either
\* environment variable, load_csv_reader returns a reader over the local CSV
\* path and main goes on to convert its rows and write the output JSON.
C10_LocalCsvFallback ==
    (/\ ~truthy(form_in.args_csv_url)
     /\ ~truthy(form_in.MINIBADGE_CSV_URL)
     /\ ~truthy(form_in.GOOGLE_FORM_CSV_URL)
     /\ pc \notin {"form_start", "load_csv"})
        => /\ reader = <<form_in.csv_file>>
           /\ pc \in {"rows", "done"}

(***************************************************************************)
(* C11: reuse of the images of a loaded record                             *)
(***************************************************************************)
\* the records of the output JSON as it is loaded at the start of the run;
\* form_json is the file read until FormWrite replaces it
LoadedRecords ==
    IF form_json.exists /\ form_json.valid THEN form_json.badges ELSE <<>>

\* the i-th row of the CSV
RowOf(i) == reader[1].rows[i]

\* a row whose title, timestamp and year are all blank
IsEmptyRow(row) ==
    strip(row.title) = "" /\ strip(row.timestamp) = "" /\ strip(row.conferenceYear) = ""

\* (slugify(title), trimmed year) of a row and of a loaded record
RowKey(row) == <<formparse_slugify(Str(strip(row.title))), strip(row.conferenceYear)>>

RecordKey(b) ==
    << formparse_slugify(IF "title" \in DOMAIN b THEN Str(b.title) ELSE None),
       strip(dict_get(b, "conferenceYear", "")) >>

\* the positions of the loaded records that have the key of the row
MatchesOf(row) ==
    {j \in 1..Len(LoadedRecords) : RecordKey(LoadedRecords[j]) = RowKey(row)}

\* the record emitted for the i-th row, a non-empty one
Emitted(i) == form_badges[Cardinality({j \in 1..i : ~IsEmptyRow(RowOf(j))})]

\* the calls of download_image_to_repo made for the i-th row
CallsOf(i) == SelectSeq(downloads, LAMBDA d : d.row = i)

ImageFields == {"profilePictureUrl", "frontImageUrl", "backImageUrl"}

\* every field but the three image fields comes from the row
OtherFieldsFromRow(b, row) ==
    /\ \A f \in (DOMAIN b \ ImageFields) \ {"quantityMade"} : b[f] = strip(row[f])
    /\ b.quantityMade = parse_int(strip(row.quantityMade))

\* the three image fields are the ones of the loaded record
ReusedFrom(b, rec) == \A f \in ImageFields : b[f] = dict_get(rec, f, "")

\* one download per image field of the row, in the order profile, front, back
DownloadedEach(i, row) ==
    /\ Len(CallsOf(i)) = 3
    /\ CallsOf(i)[1].url = strip(row.profilePictureUrl)
    /\ CallsOf(i)[2].url = strip(row.frontImageUrl)
    /\ CallsOf(i)[3].url = strip(row.backImageUrl)

LastMatch(row) ==
    IF MatchesOf(row) = {} THEN None
    ELSE LoadedRecords[CHOOSE j \in MatchesOf(row) : \A k \in MatchesOf(row) : k <= j]

SideOf(k) == IF k = 1 THEN "front" ELSE "back"

\* what a page asks of the run: whether it is accepted and, for an accepted
\* page, the file name <slug>-front.<ext> or <slug>-back.<ext> and the bytes
\* of each slot it fills (1 the front, 2 the back)
FactsOfPage(page) ==
    LET core == page_core(page.text)
        chosen == get_front_back_images(page.images)
    IN  IF core = None
        THEN [accepted |-> FALSE, files |-> <<>>, bytes |-> <<>>]
        ELSE LET slug == slugify(Str(core.title))
             IN  [ accepted |-> TRUE,
                   files |-> IF Len(chosen) = 0 THEN <<>>
                             ELSE IF Len(chosen) = 1
                             THEN <<slug \o "-front." \o chosen[1].ext>>
                             ELSE << slug \o "-front." \o chosen[1].ext,
                                     slug \o "-back." \o chosen[2].ext >>,
                   bytes |-> IF Len(chosen) = 0 THEN <<>>
                             ELSE IF Len(chosen) = 1 THEN <<chosen[1].image>>
                             ELSE <<chosen[1].image, chosen[2].image>> ]

RECURSIVE PageFacts(_)
\* the facts of the first n pages of the document
PageFacts(n) ==
    IF n = 0 THEN <<>> ELSE Append(PageFacts(n - 1), FactsOfPage(pdf.pages[n]))

\* the (page, slot) pairs that write a file
WritesOf(facts) ==
    {w \in (1..Len(facts)) \X {1, 2} : w[2] <= Len(facts[w[1]].files)}

\* the pairs that write the file fn
WritersOf(facts, fn) == {w \in WritesOf(facts) : facts[w[1]].files[w[2]] = fn}

\* the last of them, a page writing a file from one slot only
LastWriterOf(facts, fn) ==
    LET writers == WritersOf(facts, fn)
    IN  CHOOSE w \in writers : \A v \in writers : v[1] <= w[1]

\* every file written so far holds the bytes of the last page that wrote it
LastWriterWins(facts) ==
    /\ DOMAIN image_files = {facts[w[1]].files[w[2]] : w \in WritesOf(facts)}
    /\ \A fn \in DOMAIN image_files :
           LET w == LastWriterOf(facts, fn)
           IN  image_files[fn] = facts[w[1]].bytes[w[2]]

\* the position in the output list of the record of the accepted page i
RecordIndex(facts, i) == Cardinality({j \in 1..i : facts[j].accepted})

\* the image path a record holds for slot k
UrlOf(badge, k) == IF k = 1 THEN badge.frontImageUrl ELSE badge.backImageUrl

\* the record of every accepted page was emitted and names the path of the
\* file each of its slots wrote, the empty string for a slot it did not fill
RecordsNameTheirFiles(facts) ==
    /\ Len(badges) = RecordIndex(facts, Len(facts))
    /\ \A i \in 1..Len(facts), k \in {1, 2} :
           facts[i].accepted =>
               UrlOf(badges[RecordIndex(facts, i)], k) =
                   (IF k <= Len(facts[i].files)
                    THEN "images/" \o facts[i].files[k] ELSE "")

\* the accepted pages i < j write the same file from slot k
CollisionAt(facts, i, j, k) ==
    /\ i < j
    /\ facts[i].accepted /\ facts[j].accepted
    /\ k <= Len(facts[i].files) /\ k <= Len(facts[j].files)
    /\ facts[i].files[k] = facts[j].files[k]

\* whenever two pages collided, their two records name the same path
CollidingRecordsAgree(facts) ==
    \A i, j \in 1..Len(facts), k \in {1, 2} :
        CollisionAt(facts, i, j, k) =>
            UrlOf(badges[RecordIndex(facts, i)], k)
                = UrlOf(badges[RecordIndex(facts, j)], k)

\* two of the pages processed so far collided
Collided ==
    /\ pc = "pages"
    /\ page_index >= 2
    /\ LET facts == PageFacts(page_index)
       IN  \E i, j \in 1..page_index, k \in {1, 2} : CollisionAt(facts, i, j, k)

\* the run is over: the output was written with one record per accepted page
\* and every image file holds the bytes of the last page that wrote it
RunCompleted ==
    /\ pc = "done"
    /\ output_json = [written |-> TRUE, badges |-> badges]
    /\ LET facts == PageFacts(Len(pdf.pages))
       IN  LastWriterWins(facts) /\ RecordsNameTheirFiles(facts)

\* the files and the records are as the pages processed so far leave them
OverwritesInOrder ==
    pc \in {"pages", "done"} =>
        LET facts == PageFacts(page_index)
        IN  /\ LastWriterWins(facts)
            /\ RecordsNameTheirFiles(facts)
            /\ CollidingRecordsAgree(facts)

\* C12: in a PDF run, whenever two accepted pages give the same slug and the
\* same extension for a slot, the file <slug>-front.<ext> or <slug>-back.<ext>
\* holds the later page's bytes, both records name that one path, no error
\* ends the run, and the run goes on to its end, after which every image
\* file holds the bytes written by the last page that targeted it.
C12_SilentOverwrite ==
    /\ [](pc \in {"start", "exit", "pages", "done"})
    /\ []OverwritesInOrder
    /\ (Collided ~> RunCompleted)

\* the run ended after the second page wrote other bytes over the front
\* image of the first, both records naming that file
C12_Witness ==
    /\ pc = "done"
    /\ Len(pdf.pages) = 2
    /\ LET facts == PageFacts(2)
       IN  /\ CollisionAt(facts, 1, 2, 1)
           /\ facts[1].bytes[1] # facts[2].bytes[1]
           /\ image_files[facts[1].files[1]] = facts[2].bytes[1]
           /\ Len(badges) = 2
           /\ badges[1].frontImageUrl = badges[2].frontImageUrl
           /\ badges[1].frontImageUrl = "images/" \o facts[1].files[1]

====
